---- MODULE Spec2Model ----
(***************************************************************************)
(* Model of useColumnLineageDataForAssets.tsx: the column lineage decoder  *)
(* getColumnLineage and the hook useColumnLineageDataForAssets, which keeps *)
(* a cache `loaded` of decoded assets, computes the requested keys that    *)
(* are `missing` from it and fetches them behind the `fetching` ref.       *)
(*                                                                         *)
(* The hook is driven by React: a render computes `missing` (useMemo) and  *)
(* schedules the effect when `missing` changed; the effect runs after the  *)
(* commit and before the next render; the continuation of the awaited      *)
(* query runs whenever the query settles; setLoaded queues an updater that *)
(* the next render applies.                                                *)
(***************************************************************************)
EXTENDS Integers, Sequences, FiniteSets, TLC

\* ---------------------------------------------------------------- bounds
\* remote calls issued in one behaviour
MaxCalls == 2
\* members of one serialized lineage payload
MaxMembers == 2

\* ------------------------------------------------------------- constants
Null == "null"
Undefined == "undefined"
LineageLabel == "dagster/column_lineage"
SchemaLabel == "dagster/column_schema"

K1 == [path |-> <<"t1">>]
K2 == [path |-> <<"s", "t2">>]
\* the asset keys a caller can request
AssetKeyInputs == {K1, K2}

Range(s) == {s[i] : i \in DOMAIN s}

\* ------------------------------------------------------------- toGraphId
RECURSIVE JoinPath(_)
JoinPath(p) ==
  IF p = <<>> THEN <<>>
  ELSE IF Len(p) = 1 THEN <<"q", p[1], "q">>
  ELSE <<"q", p[1], "q", ",">> \o JoinPath(Tail(p))

\* JSON.stringify of an array of strings, as a sequence of characters/tokens
JSONStringifyPath(p) == <<"[">> \o JoinPath(p) \o <<"]">>

toGraphId(key) == JSONStringifyPath(key.path)

\* ------------------------------------------------- wire data of the query
\* One token of a serialized lineage payload; a payload text is a sequence
\* of tokens: an opening brace, members `"col": [refs]`, a closing brace.
LBrace == [t |-> "{", col |-> "", refs |-> <<>>]
RBrace == [t |-> "}", col |-> "", refs |-> <<>>]
Member(c, refs) == [t |-> "member", col |-> c, refs |-> refs]

UpstreamRef(path, c) == [upstream_asset_key |-> <<path>>, upstream_column_name |-> c]

\* JSON.parse of a lineage payload text: a SyntaxError unless the text is a
\* brace-delimited list of members; a repeated member name keeps the last.
JSONParse(text) ==
  IF /\ Len(text) >= 2
     /\ text[1] = LBrace
     /\ text[Len(text)] = RBrace
     /\ \A i \in 2..(Len(text) - 1) : text[i].t = "member"
  THEN [threw |-> FALSE,
        value |-> [c \in {text[i].col : i \in 2..(Len(text) - 1)} |->
                     LET last == CHOOSE i \in 2..(Len(text) - 1) :
                                   /\ text[i].col = c
                                   /\ \A j \in 2..(Len(text) - 1) : text[j].col = c => j <= i
                     IN  text[last].refs]]
  ELSE [threw |-> TRUE, value |-> <<>>]

NoSchema == [columns |-> <<>>, present |-> FALSE]
TableSchema(cols) == [columns |-> cols, present |-> TRUE]
Column(n, ty, d) == [name |-> n, type |-> ty, description |-> d]

JsonMetadataEntry(label, text) ==
  [typename |-> "JsonMetadataEntry", label |-> label, jsonString |-> text, schema |-> NoSchema]
TableSchemaMetadataEntry(label, cols) ==
  [typename |-> "TableSchemaMetadataEntry", label |-> label, jsonString |-> <<>>,
   schema |-> TableSchema(cols)]

Materialization(ts, entries) == [timestamp |-> ts, metadataEntries |-> entries]

AssetNode(key, entries, mats) ==
  [assetKey |-> key, metadataEntries |-> entries, assetMaterializations |-> mats]

\* ------------------------------------------------- external collaborators
isCanonicalColumnLineageEntry(m) ==
  m.typename = "JsonMetadataEntry" /\ m.label = LineageLabel

isCanonicalColumnSchemaEntry(m) ==
  m.typename = "TableSchemaMetadataEntry" /\ m.label = SchemaLabel

\* the index of the first element of a set of indexes, 0 when there is none
FirstIndex(found) ==
  IF found = {} THEN 0 ELSE CHOOSE i \in found : \A j \in found : i <= j

\* metadataEntries.find(isCanonicalColumnLineageEntry), as an index
FindLineageEntry(entries) ==
  FirstIndex({i \in DOMAIN entries : isCanonicalColumnLineageEntry(entries[i])})

\* the first canonical column schema entry, as an index
FindSchemaEntry(entries) ==
  FirstIndex({i \in DOMAIN entries : isCanonicalColumnSchemaEntry(entries[i])})

\* the schema of the materialization when it has one, else of the definition
buildConsolidatedColumnSchema(materialization, definition) ==
  LET mi == FindSchemaEntry(materialization.metadataEntries)
      di == FindSchemaEntry(definition.metadataEntries)
  IN  IF mi # 0 THEN materialization.metadataEntries[mi].schema
      ELSE IF di # 0 THEN definition.metadataEntries[di].schema
      ELSE NoSchema

\* ------------------------------------------------------ getColumnLineage
\* x || null
OrNull(x) == IF x \in {"", Null, Undefined} THEN Null ELSE x

\* Object.fromEntries(columns.map((col) => [col.name, col])): last one wins
schemaParsedOf(tableSchema) ==
  IF tableSchema.present
  THEN [n \in {tableSchema.columns[i].name : i \in DOMAIN tableSchema.columns} |->
          LET last == CHOOSE i \in DOMAIN tableSchema.columns :
                        /\ tableSchema.columns[i].name = n
                        /\ \A j \in DOMAIN tableSchema.columns :
                             tableSchema.columns[j].name = n => j <= i
          IN  tableSchema.columns[last]]
  ELSE [n \in {} |-> Column("", Null, Null)]

EmptyLineage == [c \in {} |-> Null]

\* the columns of the lineage that have a column of the same name in the schema
EmittedSchemaColumns(lineageParsed, schemaParsed) ==
  DOMAIN lineageParsed \cap DOMAIN schemaParsed

\* Object.entries(lineageParsed), the names: one emitted column for each
EmittedColumns(lineageParsed, schemaParsed) == DOMAIN lineageParsed

\* the last key of the serialized upstream key
UpstreamPathLast(u) == u.upstream_asset_key[Len(u.upstream_asset_key)]

\* u.upstream_asset_key[0]
UpstreamPath(u) == u.upstream_asset_key[1]

\* The result of a call: the value returned, or threw when JSON.parse throws.
getColumnLineage(node) ==
  LET hasMat == node.assetMaterializations # <<>>
      materialization == node.assetMaterializations[1]
      li == IF hasMat
            THEN FindLineageEntry(materialization.metadataEntries)
            ELSE 0
  IN  IF li = 0
      THEN [threw |-> FALSE, value |-> EmptyLineage]
      ELSE
        LET tableSchema == buildConsolidatedColumnSchema(materialization, node)
            parsed == JSONParse(materialization.metadataEntries[li].jsonString)
            lineageParsed == parsed.value
            schemaParsed == schemaParsedOf(tableSchema)
        IN  IF parsed.threw
            THEN [threw |-> TRUE, value |-> EmptyLineage]
            ELSE [threw |-> FALSE,
                  value |->
                    [column \in EmittedColumns(lineageParsed, schemaParsed) |->
                       [name |-> column,
                        asOf |-> materialization.timestamp,
                        type |-> IF column \in DOMAIN schemaParsed
                                 THEN OrNull(schemaParsed[column].type) ELSE Null,
                        description |-> IF column \in DOMAIN schemaParsed
                                        THEN OrNull(schemaParsed[column].description)
                                        ELSE Null,
                        upstream |->
                          [i \in DOMAIN lineageParsed[column] |->
                             [assetKey |->
                                [path |-> UpstreamPath(lineageParsed[column][i])],
                              columnName |->
                                lineageParsed[column][i].upstream_column_name]]]]]

\* ------------------------------------------------ what the remote returns
PayloadAC ==
  <<LBrace,
    Member("a", <<UpstreamRef(<<"t1", "col_x">>, "x"), UpstreamRef(<<"u">>, "y")>>),
    Member("c", <<>>),
    RBrace>>

\* a payload text cut off before its closing brace
PayloadCut == <<LBrace, Member("a", <<UpstreamRef(<<"u">>, "y")>>)>>

SchemaAB == <<Column("a", "INT", ""), Column("b", "STR", "the b column")>>

NodeShapes == {"noMaterialization", "noLineage", "lineage", "malformed"}

\* the asset node the remote source returns for a key, by shape
NodeOf(key, shape) ==
  CASE shape = "noMaterialization" ->
         AssetNode(key, <<TableSchemaMetadataEntry(SchemaLabel, SchemaAB)>>, <<>>)
    [] shape = "noLineage" ->
         AssetNode(key, <<>>,
                   <<Materialization("ts1", <<TableSchemaMetadataEntry(SchemaLabel, SchemaAB)>>)>>)
    [] shape = "lineage" ->
         AssetNode(key, <<TableSchemaMetadataEntry(SchemaLabel, SchemaAB)>>,
                   <<Materialization("ts2", <<JsonMetadataEntry("other", <<>>),
                                              JsonMetadataEntry(LineageLabel, PayloadAC)>>)>>)
    [] shape = "malformed" ->
         AssetNode(key, <<>>,
                   <<Materialization("ts3", <<JsonMetadataEntry(LineageLabel, PayloadCut)>>)>>)

\* the first occurrences of the elements of a sequence, in order
RECURSIVE Distinct(_)
Distinct(s) ==
  IF s = <<>> THEN <<>>
  ELSE LET d == Distinct(SubSeq(s, 1, Len(s) - 1))
       IN  IF s[Len(s)] \in Range(d) THEN d ELSE Append(d, s[Len(s)])

\* data.assetNodes for the variables {assetKeys: ks}: one node for each
\* requested key the source knows (choice[k] is its shape), in request order
AssetNodesFor(ks, choice) ==
  LET d == Distinct(ks)
      known == SelectSeq(d, LAMBDA k : choice[k] # "unknown")
  IN  [i \in DOMAIN known |-> NodeOf(known[i], choice[known[i]])]

\* the assetKeys arrays a caller passes: every ordering of every subset of the keys
KeySeqs ==
  {s \in UNION {[1..n -> AssetKeyInputs] : n \in 0..Cardinality(AssetKeyInputs)} :
     \A i, j \in DOMAIN s : s[i] = s[j] => i = j}

\* ------------------------------------------- the inputs of the decoder
\* a reference whose serialized key has a second inner array
WrappedRef ==
  [upstream_asset_key |-> <<<<"u">>, <<"v", "w">>>>, upstream_column_name |-> "y"]

RefLists ==
  {<<>>,
   <<UpstreamRef(<<"t1", "col_x">>, "x"), UpstreamRef(<<"u">>, "y")>>,
   <<WrappedRef, UpstreamRef(<<"t1", "col_x">>, "x")>>}

Members == {Member(c, r) : c \in {"a", "c"}, r \in RefLists}

\* the serialized lineage payloads: the objects of up to MaxMembers
\* members, and a text that does not parse
LineageTexts ==
  {<<LBrace>> \o ms \o <<RBrace>> :
     ms \in UNION {[1..n -> Members] : n \in 0..MaxMembers}}
  \cup {PayloadCut}

SchemaAC == <<Column("a", "FLOAT", "the a column"), Column("c", "STR", Null)>>

\* An asset node whose materialization has a column lineage entry, after an
\* entry of another label; the table schema entries of the materialization
\* and of the definition are given.
LineageNode(text, matSchema, defSchema) ==
  AssetNode(K1, defSchema,
            <<Materialization("ts2", matSchema \o <<JsonMetadataEntry("other", <<>>),
                                                    JsonMetadataEntry(LineageLabel, text)>>)>>)

\* the asset nodes getColumnLineage is called with
DecoderInputs ==
  {LineageNode(text, m, d) :
     text \in LineageTexts,
     m \in {<<>>, <<TableSchemaMetadataEntry(SchemaLabel, SchemaAB)>>},
     d \in {<<>>, <<TableSchemaMetadataEntry(SchemaLabel, SchemaAC)>>}}
  \cup {NodeOf(K1, shape) : shape \in NodeShapes}

\* --------------------------------------------------------------- state
VARIABLES
  assetKeys,      \* the assetKeys argument of the last render
  loaded,         \* useState: graphId -> AssetColumnLineageLocal
  fetching,       \* useRef: fetching.current
  missing,        \* useMemo: the value computed by the last render
  effectPending,  \* the effect of the last commit has not run yet
  updateQueue,    \* data.assetNodes of the setLoaded updaters not yet rendered
  inflight,       \* variables.assetKeys of the client.query calls not settled
  responses,      \* data.assetNodes of the resolved calls not yet rendered
  nCalls,         \* the number of client.query calls made so far
  requestCount,   \* for each asset key, the number of calls that requested it
  rejected,       \* the last client.query call to settle was rejected
  status,         \* "mounted", or "crashed" once a render has thrown
  returned,       \* the asset nodes of the client.query calls that resolved
  asset,          \* the argument of a getColumnLineage call on its own
  decoded         \* the results of the getColumnLineage(asset) calls made

vars == <<assetKeys, loaded, fetching, missing, effectPending, updateQueue,
          inflight, responses, nCalls, requestCount, rejected, status,
          returned, asset, decoded>>

\* --------------------------------------------------------------- the hook
\* the filter without its negation
MissingInverted(keys, cache) ==
  SelectSeq(keys, LAMBDA a : toGraphId(a) \in DOMAIN cache)

\* the filter taking an asset decoded to no columns for one not loaded
MissingOrEmpty(keys, cache) ==
  SelectSeq(keys, LAMBDA a : \/ ~(toGraphId(a) \in DOMAIN cache)
                             \/ DOMAIN cache[toGraphId(a)] = {})

\* assetKeys.filter((a) => !loaded[toGraphId(a)])
Missing(keys, cache) ==
  SelectSeq(keys, LAMBDA a : ~(toGraphId(a) \in DOMAIN cache))

\* Object.fromEntries(nodes.map((n) => [toGraphId(n.assetKey), getColumnLineage(n)]))
\* for nodes that decode: a repeated graphId keeps its last node
FromEntries(nodes) ==
  [id \in {toGraphId(nodes[i].assetKey) : i \in DOMAIN nodes} |->
     LET last == CHOOSE i \in DOMAIN nodes :
                   /\ toGraphId(nodes[i].assetKey) = id
                   /\ \A j \in DOMAIN nodes : toGraphId(nodes[j].assetKey) = id => j <= i
     IN  getColumnLineage(nodes[last]).value]

\* {...entries}: the previous entries dropped
MergeReplacing(cache, entries) == entries

\* {...entries, ...cache}: a previous entry wins over a new one
MergeKeepingOld(cache, entries) ==
  [id \in DOMAIN cache \cup DOMAIN entries |->
     IF id \in DOMAIN cache THEN cache[id] ELSE entries[id]]

\* {...cache, ...entries}
Merge(cache, entries) ==
  [id \in DOMAIN cache \cup DOMAIN entries |->
     IF id \in DOMAIN entries THEN entries[id] ELSE cache[id]]

\* the updater merging the first node of the response alone
SetLoadedUpdaterFirstNode(prev, nodes) ==
  IF \E i \in DOMAIN nodes : getColumnLineage(nodes[i]).threw
  THEN [threw |-> TRUE, next |-> prev, prevAfter |-> prev]
  ELSE [threw |-> FALSE,
        next |-> Merge(prev, FromEntries(IF nodes = <<>> THEN nodes ELSE <<nodes[1]>>)),
        prevAfter |-> prev]

\* The updater passed to setLoaded, applied to the previous state `prev`:
\* threw when a getColumnLineage call throws, else next is the new state;
\* prevAfter is what the object `prev` holds once the updater has returned.
SetLoadedUpdater(prev, nodes) ==
  IF \E i \in DOMAIN nodes : getColumnLineage(nodes[i]).threw
  THEN [threw |-> TRUE, next |-> prev, prevAfter |-> prev]
  ELSE [threw |-> FALSE,
        next |-> Merge(prev, FromEntries(nodes)),
        prevAfter |-> prev]

\* a render runs the queued updaters in order, each on the result of the last
RECURSIVE ProcessUpdateQueue(_, _)
ProcessUpdateQueue(state, queue) ==
  IF queue = <<>> THEN [threw |-> FALSE, next |-> state]
  ELSE LET r == SetLoadedUpdater(state, Head(queue))
       IN  IF r.threw THEN [threw |-> TRUE, next |-> state]
           ELSE ProcessUpdateQueue(r.next, Tail(queue))

\* a cache that has an entry before any call is made
InitialLoadedSeeded == [id \in {toGraphId(K1)} |-> EmptyLineage]

\* useState<AssetColumnLineages>({})
InitialLoaded == [id \in {} |-> EmptyLineage]

IdsOf(nodes) == {toGraphId(nodes[i].assetKey) : i \in DOMAIN nodes}

Init ==
  /\ assetKeys \in KeySeqs
  /\ loaded = InitialLoaded
  /\ fetching = FALSE
  /\ missing = Missing(assetKeys, loaded)
  /\ effectPending = TRUE
  /\ updateQueue = <<>>
  /\ inflight = <<>>
  /\ responses = <<>>
  /\ nCalls = 0
  /\ requestCount = [k \in AssetKeyInputs |-> 0]
  /\ rejected = FALSE
  /\ status = "mounted"
  /\ returned = {}
  /\ asset = NodeOf(K1, "noMaterialization")
  /\ decoded = <<>>

\* A render of the hook with the argument keys: applies the queued updaters,
\* recomputes `missing` and schedules the effect. A throwing updater makes
\* the render throw, and React discards the component.
Render(keys) ==
  LET r == ProcessUpdateQueue(loaded, updateQueue)
  IN  IF r.threw
      THEN /\ status' = "crashed"
           /\ UNCHANGED <<assetKeys, loaded, fetching, missing, effectPending,
                          updateQueue, inflight, responses, nCalls, requestCount,
                          rejected, returned, asset, decoded>>
      ELSE /\ assetKeys' = keys
           /\ loaded' = r.next
           /\ missing' = Missing(keys, r.next)
           /\ effectPending' = TRUE
           /\ updateQueue' = <<>>
           /\ responses' = <<>>
           /\ UNCHANGED <<fetching, inflight, nCalls, requestCount, rejected, status,
                          returned, asset, decoded>>

\* the caller renders the hook with a new assetKeys array
RenderProps ==
  /\ status = "mounted"
  /\ ~effectPending
  /\ \E keys \in KeySeqs : Render(keys)

\* the render that a setLoaded call scheduled
RenderState ==
  /\ status = "mounted"
  /\ ~effectPending
  /\ updateQueue # <<>>
  /\ Render(assetKeys)

\* the guard without its test of the ref
ShouldFetchIgnoringFlag(fetchingCurrent, missingKeys) ==
  Len(missingKeys) # 0

\* if (!fetching.current && missing.length)
ShouldFetch(fetchingCurrent, missingKeys) ==
  ~fetchingCurrent /\ Len(missingKeys) # 0

\* the query sent for every requested key
QueryVariablesAllKeys(keys, missingKeys) == keys

\* variables: {assetKeys: missing}
QueryVariables(keys, missingKeys) == missingKeys

\* each node decoded and set in turn, up to the first that fails to decode
UpdatersOfDecodedPrefix(nodes) ==
  LET bad == {i \in DOMAIN nodes : getColumnLineage(nodes[i]).threw}
      n == IF bad = {} THEN Len(nodes)
           ELSE (CHOOSE i \in bad : \A j \in bad : i <= j) - 1
  IN  IF n = 0 THEN <<>> ELSE <<SubSeq(nodes, 1, n)>>

\* the setLoaded calls of one resolved query: one updater over all the nodes
UpdatersOf(nodes) == <<nodes>>

\* the effect body: if (!fetching.current && missing.length) void fetch(),
\* and fetch up to its await
RunEffect ==
  /\ status = "mounted"
  /\ effectPending
  /\ effectPending' = FALSE
  /\ IF ShouldFetch(fetching, missing) /\ nCalls < MaxCalls
     THEN /\ fetching' = TRUE
          /\ inflight' = Append(inflight, QueryVariables(assetKeys, missing))
          /\ nCalls' = nCalls + 1
          /\ requestCount' = [k \in AssetKeyInputs |->
                                IF k \in Range(QueryVariables(assetKeys, missing))
                                THEN requestCount[k] + 1
                                ELSE requestCount[k]]
     ELSE UNCHANGED <<fetching, inflight, nCalls, requestCount>>
  /\ UNCHANGED <<assetKeys, loaded, missing, updateQueue, responses, rejected, status,
                 returned, asset, decoded>>

RemoveAt(s, i) == SubSeq(s, 1, i - 1) \o SubSeq(s, i + 1, Len(s))

\* fetching.current left as it is after the await
FlagLeftSet == fetching

\* fetching.current = false, after the await
FlagAfterAwait == FALSE

\* client.query resolves with nodes of the given shapes: fetch continues
\* after its await
QueryResolvesWith(shapes) ==
  /\ status = "mounted"
  /\ \E i \in DOMAIN inflight :
       \E choice \in [Range(inflight[i]) -> shapes] :
         /\ fetching' = FlagAfterAwait
         /\ updateQueue' = updateQueue \o UpdatersOf(AssetNodesFor(inflight[i], choice))
         /\ responses' = Append(responses, AssetNodesFor(inflight[i], choice))
         /\ returned' = returned \cup Range(AssetNodesFor(inflight[i], choice))
         /\ inflight' = RemoveAt(inflight, i)
  /\ rejected' = FALSE
  /\ UNCHANGED <<assetKeys, loaded, missing, effectPending, nCalls, requestCount, status,
                 asset, decoded>>

\* client.query resolves, with a node of any shape for each requested key
\* the source knows
QueryResolves == QueryResolvesWith(NodeShapes \cup {"unknown"})

\* the shapes of the nodes that decode
DecodableShapes == {"noMaterialization", "noLineage", "lineage"}

\* client.query resolves with a node that decodes for every requested key
QueryResolvesComplete == QueryResolvesWith(DecodableShapes)

\* client.query rejects: the await throws and fetch ends there
QueryRejects ==
  /\ status = "mounted"
  /\ \E i \in DOMAIN inflight :
       inflight' = RemoveAt(inflight, i)
  /\ rejected' = TRUE
  /\ UNCHANGED <<assetKeys, loaded, fetching, missing, effectPending, updateQueue,
                 responses, nCalls, requestCount, status, returned, asset, decoded>>

Next ==
  \/ RenderProps
  \/ RenderState
  \/ RunEffect
  \/ QueryResolves
  \/ QueryRejects

Spec == Init /\ [][Next]_vars

\* The hook when every call succeeds and returns every asset it was asked
\* for. React runs every scheduled effect and every scheduled render, and
\* every call is answered; the caller renders the hook when it likes.
LiveNext ==
  \/ RenderProps
  \/ RenderState
  \/ RunEffect
  \/ QueryResolvesComplete

\* ENABLED <<RenderState>>_vars: a render either commits or throws
RenderStateEnabled ==
  status = "mounted" /\ ~effectPending /\ updateQueue # <<>>

\* WF_vars(RenderState), with its enabling condition written out
RenderStateFair ==
  []<>(~RenderStateEnabled) \/ []<><<RenderState>>_vars

LiveSpec ==
  /\ Init
  /\ [][LiveNext]_vars
  /\ WF_vars(RunEffect)
  /\ WF_vars(QueryResolvesComplete)
  /\ RenderStateFair

\* getColumnLineage called on its own, on any asset node of DecoderInputs
DecodeInit ==
  /\ asset \in DecoderInputs
  /\ decoded = <<>>
  /\ assetKeys = <<>>
  /\ loaded = InitialLoaded
  /\ fetching = FALSE
  /\ missing = <<>>
  /\ effectPending = FALSE
  /\ updateQueue = <<>>
  /\ inflight = <<>>
  /\ responses = <<>>
  /\ nCalls = 0
  /\ requestCount = [k \in AssetKeyInputs |-> 0]
  /\ rejected = FALSE
  /\ status = "mounted"
  /\ returned = {}

\* the call getColumnLineage(asset)
Decode ==
  /\ decoded = <<>>
  /\ decoded' = <<getColumnLineage(asset)>>
  /\ UNCHANGED <<assetKeys, loaded, fetching, missing, effectPending, updateQueue,
                 inflight, responses, nCalls, requestCount, rejected, status, returned,
                 asset>>

DecodeSpec == DecodeInit /\ [][Decode]_vars

TypeOK ==
  /\ assetKeys \in KeySeqs
  /\ fetching \in BOOLEAN
  /\ effectPending \in BOOLEAN
  /\ status \in {"mounted", "crashed"}

\* ----------------------------------------------------------------- steps
\* a client.query call is made
IssueStep == nCalls' = nCalls + 1
\* the variables.assetKeys of the call made by an IssueStep
IssuedKeys == inflight'[Len(inflight')]
\* a client.query call is rejected
RejectStep == Len(inflight') < Len(inflight) /\ rejected'
\* the effect runs
EffectStep == effectPending /\ ~effectPending'
\* a render commits the queued updates
CommitStep == responses # <<>> /\ responses' = <<>>

Absent(key, cache) == toGraphId(key) \notin DOMAIN cache

Undecodable(nodes) == \E i \in DOMAIN nodes : getColumnLineage(nodes[i]).threw

\* ------------------------------------------------------------------- C1
\* C1: at most one client.query call is outstanding in every reachable
\* state, and it is outstanding only while fetching.current is set: an
\* effect that runs while a call is in flight makes no call.
C1_OneFetchOutstanding ==
  /\ Len(inflight) <= 1
  /\ Len(inflight) = 1 => fetching

\* a call is in flight and the effect of a later render, whose `missing` is
\* not empty and differs from the keys in flight, has run without a call
C1_Witness ==
  /\ Len(inflight) = 1
  /\ nCalls = 1
  /\ ~effectPending
  /\ missing # <<>>
  /\ missing # inflight[1]

\* ------------------------------------------------------------------- C2
\* C2: when a client.query call is rejected, fetching.current is cleared,
\* and when the effect then runs with keys missing it makes a new call.
C2_FailureClearsFlagAndRetries ==
  [][/\ RejectStep => ~fetching'
     /\ (rejected /\ inflight = <<>> /\ EffectStep /\ missing # <<>> /\ nCalls < MaxCalls)
          => IssueStep]_vars

\* ------------------------------------------------------------------- C3
\* C3: a failed cycle merges nothing: a step in which a call is rejected
\* leaves `loaded` as it is, and so does every step taken while a resolved
\* response holds a node that does not decode, whatever else it holds.
C3_FailedCycleLeavesCache ==
  [][/\ RejectStep => loaded' = loaded
     /\ (\E i \in DOMAIN responses : Undecodable(responses[i])) => loaded' = loaded]_vars

\* the render of a response with a node that decodes and one that does not
\* has thrown, and the node that decodes is not in `loaded`
C3_Witness ==
  /\ status = "crashed"
  /\ \E i \in DOMAIN responses :
       /\ Undecodable(responses[i])
       /\ \E j \in DOMAIN responses[i] :
            /\ ~getColumnLineage(responses[i][j]).threw
            /\ Absent(responses[i][j].assetKey, loaded)

\* ------------------------------------------------------------------- C4
\* C4: every client.query call asks for a non-empty set of keys, which is
\* exactly the keys of assetKeys whose graphId is not in `loaded` when the
\* call is made.
C4_CallAsksForAbsentKeys ==
  [][IssueStep =>
       /\ IssuedKeys # <<>>
       /\ Range(IssuedKeys) = {k \in Range(assetKeys) : Absent(k, loaded)}]_vars

\* a call has been made for one key while the other requested key is cached
C4_Witness ==
  /\ Len(inflight) = 1
  /\ Len(assetKeys) = 2
  /\ Len(inflight[1]) = 1
  /\ \E k \in Range(assetKeys) : ~Absent(k, loaded)

\* ------------------------------------------------------------------- C5
\* C5: no asset key is in the variables of two client.query calls.
C5_EachKeyRequestedOnce ==
  \A k \in AssetKeyInputs : requestCount[k] <= 1

\* ------------------------------------------------------------------- C6
\* C6: a step that changes `loaded` puts every node of every response it
\* renders into `loaded` at once, the nodes of the last response with their
\* decoded values; no other step changes `loaded`.
C6_ResponseMergedAtomically ==
  [][loaded' # loaded =>
       /\ responses # <<>>
       /\ \A i \in DOMAIN responses : \A j \in DOMAIN responses[i] :
            toGraphId(responses[i][j].assetKey) \in DOMAIN loaded'
       /\ \A j \in DOMAIN responses[Len(responses)] :
            LET n == responses[Len(responses)][j]
            IN  loaded'[toGraphId(n.assetKey)] = getColumnLineage(n).value]_vars

\* one call has been made and both assets it returned are in `loaded`
C6_Witness ==
  /\ nCalls = 1
  /\ responses = <<>>
  /\ Cardinality(DOMAIN loaded) = 2

\* ------------------------------------------------------------------- C7
\* C7: no step removes a graphId from `loaded`, and a step that keeps
\* assetKeys adds no key to `missing`.
C7_ResolvedStaysResolved ==
  [][/\ DOMAIN loaded \subseteq DOMAIN loaded'
     /\ assetKeys' = assetKeys => Range(missing') \subseteq Range(missing)]_vars

\* two responses have been merged one after the other
C7_Witness ==
  /\ nCalls = 2
  /\ responses = <<>>
  /\ inflight = <<>>
  /\ Cardinality(DOMAIN loaded) = 2
  /\ \A k \in AssetKeyInputs : requestCount[k] = 1

\* ------------------------------------------------------------------- C8
\* the place of a key in an array without repeated keys
IndexOf(keys, k) == CHOOSE i \in DOMAIN keys : keys[i] = k

\* C8: `missing` holds exactly the keys of assetKeys whose graphId is not in
\* `loaded`, each once and in the order of assetKeys, and every reordering of
\* assetKeys has the same set of missing keys.
C8_MissingIsAbsentKeysInOrder ==
  /\ Range(missing) = {k \in Range(assetKeys) : Absent(k, loaded)}
  /\ Len(missing) = Cardinality(Range(missing))
  /\ \A i, j \in DOMAIN missing :
       i < j => IndexOf(assetKeys, missing[i]) < IndexOf(assetKeys, missing[j])
  /\ \A p \in KeySeqs :
       Range(p) = Range(assetKeys) =>
         Range(Missing(p, loaded)) = {k \in Range(assetKeys) : Absent(k, loaded)}

\* two keys are requested, the first is in `loaded` and the second is not
C8_Witness ==
  /\ Len(assetKeys) = 2
  /\ ~Absent(assetKeys[1], loaded)
  /\ missing = <<assetKeys[2]>>

\* ------------------------------------------------------------------- C9
\* a node with no materialization, or whose materialization has no column
\* lineage entry
NoLineagePayload(n) ==
  \/ n.assetMaterializations = <<>>
  \/ \A e \in Range(n.assetMaterializations[1].metadataEntries) :
       ~(e.typename = "JsonMetadataEntry" /\ e.label = LineageLabel)

\* C9: a returned node without a lineage payload decodes, without throwing,
\* to no columns; once its response is rendered its graphId is in `loaded`
\* with no columns (unless a later response of the same render has the
\* asset too), and no key whose graphId is in `loaded` with no columns is
\* in `missing`.
C9_EmptyEntityIsResolved ==
  [][/\ \A i \in DOMAIN responses' : \A j \in DOMAIN responses'[i] :
          NoLineagePayload(responses'[i][j]) =>
            /\ ~getColumnLineage(responses'[i][j]).threw
            /\ DOMAIN getColumnLineage(responses'[i][j]).value = {}
     /\ CommitStep =>
          \A i \in DOMAIN responses : \A j \in DOMAIN responses[i] :
            LET n == responses[i][j]
                id == toGraphId(n.assetKey)
            IN  (/\ NoLineagePayload(n)
                 /\ \A i2 \in DOMAIN responses :
                      i2 > i => id \notin IdsOf(responses[i2]))
                  => id \in DOMAIN loaded' /\ DOMAIN loaded'[id] = {}
     /\ \A k \in Range(missing') :
          ~(toGraphId(k) \in DOMAIN loaded' /\ DOMAIN loaded'[toGraphId(k)] = {})]_vars

\* a requested asset is in `loaded` with no columns and is not missing,
\* while the other requested asset still is
C9_Witness ==
  /\ Len(assetKeys) = 2
  /\ Len(missing) = 1
  /\ \E k \in Range(assetKeys) :
       /\ ~Absent(k, loaded)
       /\ DOMAIN loaded[toGraphId(k)] = {}

\* ------------------------------------------------------------------ C10
\* the entries a response that decodes adds
EntriesOf(nodes) == [id \in IdsOf(nodes) |->
                       LET j == CHOOSE j \in DOMAIN nodes : toGraphId(nodes[j].assetKey) = id
                       IN  getColumnLineage(nodes[j]).value]

\* C10: for every queued response that decodes, the updater applied to
\* `loaded` returns a cache that holds each new entry, keeps every other
\* entry of `loaded`, is returned again when the updater is applied to it
\* with the same response, and leaves the object it was given as it was.
C10_MergeIsPureAndIdempotent ==
  \A i \in DOMAIN updateQueue :
    ~Undecodable(updateQueue[i]) =>
      LET once == SetLoadedUpdater(loaded, updateQueue[i])
          twice == SetLoadedUpdater(once.next, updateQueue[i])
          new == EntriesOf(updateQueue[i])
      IN  /\ ~once.threw /\ ~twice.threw
          /\ twice.next = once.next
          /\ DOMAIN once.next = DOMAIN loaded \cup DOMAIN new
          /\ \A id \in DOMAIN new : once.next[id] = new[id]
          /\ \A id \in DOMAIN loaded \ DOMAIN new : once.next[id] = loaded[id]
          /\ once.prevAfter = loaded

\* a queued response has an asset that is in `loaded` with another value,
\* and `loaded` has an asset the response does not have
C10_Witness ==
  /\ updateQueue # <<>>
  /\ ~Undecodable(updateQueue[1])
  /\ \E id \in DOMAIN loaded \cap IdsOf(updateQueue[1]) :
       loaded[id] # EntriesOf(updateQueue[1])[id]

HasLineagePayload(n) == ~NoLineagePayload(n)

\* the text of the lineage payload of an asset
LineageTextOf(n) ==
  LET entries == n.assetMaterializations[1].metadataEntries
  IN  entries[FindLineageEntry(entries)].jsonString

\* the column names of a lineage payload
PayloadColumns(text) == {text[i].col : i \in {j \in DOMAIN text : text[j].t = "member"}}

\* the column names of the schema of an asset
SchemaColumns(n) ==
  LET tableSchema == buildConsolidatedColumnSchema(n.assetMaterializations[1], n)
  IN  {tableSchema.columns[i].name : i \in DOMAIN tableSchema.columns}

\* C12: when an asset with a lineage payload is decoded, the column names of
\* the result are exactly the column names of the payload, whatever columns
\* the schema has.
C12_ColumnsAreLineageColumns ==
  (/\ decoded # <<>>
   /\ HasLineagePayload(asset)
   /\ ~decoded[1].threw)
    => DOMAIN decoded[1].value = PayloadColumns(LineageTextOf(asset))

\* decoded: an asset whose payload has a column the schema lacks and whose
\* schema has a column the payload lacks
C12_Witness ==
  /\ decoded # <<>>
  /\ HasLineagePayload(asset)
  /\ ~decoded[1].threw
  /\ PayloadColumns(LineageTextOf(asset)) \ SchemaColumns(asset) # {}
  /\ SchemaColumns(asset) \ PayloadColumns(LineageTextOf(asset)) # {}
  /\ PayloadColumns(LineageTextOf(asset)) \cap SchemaColumns(asset) # {}

\* ------------------------------------------------------------------ C13
\* C13: while a client.query call is outstanding fetching.current is set,
\* and a render with another assetKeys array made in that time changes
\* neither fetching.current, nor the variables of the outstanding call, nor
\* `loaded`.
C13_KeyChangeLeavesFetchAlone ==
  [][/\ inflight # <<>> => fetching
     /\ (inflight # <<>> /\ assetKeys' # assetKeys) =>
          /\ fetching' = fetching
          /\ inflight' = inflight
          /\ loaded' = loaded]_vars

\* ------------------------------------------------------------------ C14
\* what a schema holds under `field` for a column name: null when it has no
\* such column, or no value there
SchemaValue(tableSchema, name, field) ==
  LET found == {i \in DOMAIN tableSchema.columns : tableSchema.columns[i].name = name}
  IN  IF found = {} THEN Null
      ELSE LET col == tableSchema.columns[CHOOSE i \in found : TRUE]
           IN  IF col[field] \in {"", Null} THEN Null ELSE col[field]

\* C14: when an asset with a lineage payload is decoded, every column of the
\* payload is in the result with its name, the timestamp of the
\* materialization, the type and the description the schema holds for that
\* name (null when it holds none), and one upstream entry for each reference
\* of the payload, in the same order, with the first inner array of
\* upstream_asset_key as path and upstream_column_name as column name.
C14_ColumnBuiltFromPayloadAndSchema ==
  (/\ decoded # <<>>
   /\ HasLineagePayload(asset)
   /\ ~decoded[1].threw)
    => LET materialization == asset.assetMaterializations[1]
           tableSchema == buildConsolidatedColumnSchema(materialization, asset)
           payload == JSONParse(LineageTextOf(asset)).value
           out == decoded[1].value
       IN  \A c \in PayloadColumns(LineageTextOf(asset)) :
             /\ c \in DOMAIN out
             /\ out[c].name = c
             /\ out[c].asOf = materialization.timestamp
             /\ out[c].type = SchemaValue(tableSchema, c, "type")
             /\ out[c].description = SchemaValue(tableSchema, c, "description")
             /\ Len(out[c].upstream) = Len(payload[c])
             /\ \A i \in DOMAIN payload[c] :
                  /\ out[c].upstream[i].assetKey =
                       [path |-> Head(payload[c][i].upstream_asset_key)]
                  /\ out[c].upstream[i].columnName = payload[c][i].upstream_column_name

\* decoded: a column with a type and an empty description in the schema
\* of the materialization, whose first reference has a key with two inner
\* arrays, and a column the schema does not have
C14_Witness ==
  /\ decoded # <<>>
  /\ HasLineagePayload(asset)
  /\ ~decoded[1].threw
  /\ \E c, c2 \in DOMAIN decoded[1].value :
       /\ decoded[1].value[c].type = "INT"
       /\ decoded[1].value[c].description = Null
       /\ Len(decoded[1].value[c].upstream) = 2
       /\ decoded[1].value[c].upstream[1] = [assetKey |-> [path |-> <<"u">>], columnName |-> "y"]
       /\ c2 \notin SchemaColumns(asset)
       /\ decoded[1].value[c2].type = Null

\* ------------------------------------------------------------------ C15
\* C15: `loaded` is empty until a call has resolved, and every graphId in
\* `loaded` is the graphId of an asset node that a resolved client.query
\* call returned, with the value getColumnLineage returns for that node.
C15_EntriesComeFromResponses ==
  \A id \in DOMAIN loaded :
    \E n \in returned :
      /\ toGraphId(n.assetKey) = id
      /\ ~getColumnLineage(n).threw
      /\ loaded[id] = getColumnLineage(n).value

\* both assets are in `loaded`, one of them with columns, each returned by
\* a call of its own
C15_Witness ==
  /\ Cardinality(DOMAIN loaded) = 2
  /\ \E id \in DOMAIN loaded : DOMAIN loaded[id] # {}
  /\ nCalls = 2
  /\ \A k \in AssetKeyInputs : requestCount[k] = 1

\* ------------------------------------------------------------------ C16
\* C16: whatever the order of responses, renders and effects, no
\* client.query call asks for a key whose asset node a resolved call has
\* returned; in particular not a call made after the continuation cleared
\* fetching.current and before a render has applied its merge.
C16_NoCallBeforeMergeVisible ==
  [][IssueStep =>
       \A k \in Range(IssuedKeys) : \A n \in returned : n.assetKey # k]_vars
====
